---- MODULE Spec2Model ----
(***************************************************************************)
(* A model of the audio engine (src/utils/audioEngine.ts): live playback,  *)
(* the raw PCM decoder, the offline renderer and its WAV encoder; and of   *)
(* the handlers of the UI (src/App.tsx) that load buffers, move the        *)
(* timeline and download the mix.                                          *)
(*                                                                         *)
(* Time.  Every time value of the program is a number of seconds.  The     *)
(* model counts time in ticks of 1/TimeBase second, where TimeBase is a    *)
(* common multiple of all sample rates that occur, so that the duration    *)
(* length / sampleRate of every buffer is a whole number of ticks and all  *)
(* comparisons and differences of the program are exact.  Floating-point   *)
(* rounding is not modelled.                                               *)
(***************************************************************************)
EXTENDS Integers, Sequences, FiniteSets, TLC

VARIABLES
    ctxCurrentTime,   \* AudioContext.currentTime of this.ctx, in ticks
    ctxState,         \* AudioContext.state of this.ctx
    graph,            \* the source nodes the audio graph still holds
    musicSource,      \* AudioEngine.musicSource: NULL or a reference to a node
    voiceSource,      \* AudioEngine.voiceSource: NULL or a reference to a node
    startTime,        \* AudioEngine.startTime, the anchor, in ticks
    pausedAt,         \* AudioEngine.pausedAt
    gen,              \* number of schedulePlayback calls made so far
    call,             \* the last call made to the engine, with its outcome
    musicBuffer,      \* App state: the decoded background buffer or NULL
    voiceBuffer,      \* App state: the decoded voice buffer or NULL
    voiceStartTime,   \* App state, in ticks
    isGenerating,     \* App state: the busy flag
    error,            \* App state: NULL or [message |-> the error message]
    pendingRender,    \* handleDownload suspended at its await: the captured arguments
    downloads,        \* the Blobs the UI has started a download of
    backgroundFile,   \* App state: NULL or the file chosen last
    isPlaying,        \* App state
    currentTime,      \* App state: the playhead shown, in ticks
    appDuration,      \* App state duration: the length of the timeline shown, in ticks
    pendingUpload,    \* handleFileUpload suspended at its awaits: what it closed over
    pendingVoice,     \* handleGenerateVoice suspended at its awaits: what it closed over
    effectPending,    \* the visualization effect is due to run draw() on a playing UI
    recorded          \* history: the playhead draw recorded last and the device time
                      \* of that run, or NULL once a seek has moved the playhead since

engineVars == <<graph, musicSource, voiceSource, startTime, pausedAt>>
ctxVars == <<ctxCurrentTime, ctxState>>
timelineVars == <<backgroundFile, isPlaying, currentTime, appDuration, pendingUpload,
                  pendingVoice, effectPending, recorded>>
uiVars == <<musicBuffer, voiceBuffer, voiceStartTime, isGenerating, error,
            pendingRender, downloads, timelineVars>>
vars == <<ctxCurrentTime, ctxState, graph, musicSource, voiceSource, startTime,
          pausedAt, gen, call, musicBuffer, voiceBuffer, voiceStartTime,
          isGenerating, error, pendingRender, downloads, backgroundFile,
          isPlaying, currentTime, appDuration, pendingUpload, pendingVoice,
          effectPending, recorded>>

(***************************************************************************)
(* Bounds of the model.                                                    *)
(***************************************************************************)
MaxFrames == 2      \* buffers hold 1..MaxFrames frames
MaxChannels == 2    \* buffers have 1..MaxChannels channels
MaxTime == 2        \* offsets and voice start times: 0..MaxTime grid steps
MaxClock == 1       \* the device clock is followed for MaxClock grid steps
MaxGen == 2         \* schedulePlayback calls followed
MaxDownloads == 1   \* downloads followed
MaxUiClock == 2     \* the UI's device clock is followed for MaxUiClock steps
MaxSlider == 2      \* slider values: 0..MaxSlider steps of the slider

(***************************************************************************)
(* Program constants.                                                      *)
(***************************************************************************)
RenderChannels == 2
RenderSampleRate == 44100
VoiceSampleRate == 24000

NULL == [null |-> TRUE]

\* Sample rates of the buffers considered: the rate of the generated voice, the
\* rate of the rendered mix, and a usual device rate above it.
SampleRates == {VoiceSampleRate, RenderSampleRate, 48000}

\* Ticks per second: the least common multiple of SampleRates.
TimeBase == 160 * RenderSampleRate

\* The grid the callers' time arguments are drawn from: one frame of the mix.
TimeStep == TimeBase \div RenderSampleRate

Times == {k * TimeStep : k \in 0..MaxTime}

\* AudioBuffer: the fields the engine reads.
AudioBuffers ==
    [numberOfChannels : 1..MaxChannels, length : 1..MaxFrames, sampleRate : SampleRates]

\* AudioBuffer.duration = length / sampleRate seconds, in ticks.
duration(b) == b.length * (TimeBase \div b.sampleRate)

Min(a, b) == IF a <= b THEN a ELSE b
Max(a, b) == IF a >= b THEN a ELSE b

(***************************************************************************)
(* The audio graph of the host platform: AudioBufferSourceNode.            *)
(* A node is identified by the schedulePlayback call that created it (gen) *)
(* and by the field it was created for (kind).  The graph holds a node     *)
(* from its creation until it both is disconnected and has finished        *)
(* (stopped, or played to its end): until then it can sound.               *)
(***************************************************************************)
Kinds == {"music", "voice"}

Ref(g, k) == [gen |-> g, kind |-> k]

Node(gr, ref) == CHOOSE n \in gr : n.gen = ref.gen /\ n.kind = ref.kind

\* The node has played its buffer to the end by device time now.
Ended(n, now) == now >= n.when + (duration(n.buffer) - n.offset)

Finished(n, now) == n.stopped \/ Ended(n, now)

\* createBufferSource(); src.buffer = buffer; src.connect(masterGain);
\* src.start(when, offset)
startSource(gr, ref, buffer, when, offset) ==
    gr \cup {[gen |-> ref.gen, kind |-> ref.kind, buffer |-> buffer, when |-> when,
              offset |-> offset, stopped |-> FALSE, connected |-> TRUE]}

\* src.stop().  On a node that has already played to its end the platform may
\* raise (raises names the kinds of node for which it does); the node is then
\* left as it is.
sourceStop(gr, ref, now, raises) ==
    LET n == Node(gr, ref)
    IN  IF Ended(n, now) /\ ref.kind \in raises
        THEN [graph |-> gr, thrown |-> "InvalidStateError"]
        ELSE [graph |-> (gr \ {n}) \cup {[n EXCEPT !.stopped = TRUE]},
              thrown |-> "none"]

\* src.disconnect(): never raises.  A finished node leaves the graph.
sourceDisconnect(gr, ref, now) ==
    LET n == Node(gr, ref)
    IN  IF Finished(n, now)
        THEN gr \ {n}
        ELSE (gr \ {n}) \cup {[n EXCEPT !.connected = FALSE]}

(***************************************************************************)
(* AudioEngine.  An engine value e is a record of the fields of the class  *)
(* and of the graph they refer to; e.thrown is the exception, if any, that *)
(* the operation applied last let escape.                                  *)
(***************************************************************************)
Engine ==
    [graph |-> graph, musicSource |-> musicSource, voiceSource |-> voiceSource,
     startTime |-> startTime, pausedAt |-> pausedAt, thrown |-> "none"]

SetEngine(e) ==
    /\ graph' = e.graph
    /\ musicSource' = e.musicSource
    /\ voiceSource' = e.voiceSource
    /\ startTime' = e.startTime
    /\ pausedAt' = e.pausedAt

\* Variant of stopMusic: stop() called without try/catch, so that what it
\* raises escapes.
stopMusicNoCatch(e, now, raises) ==
    IF e.musicSource # NULL
    THEN LET r == sourceStop(e.graph, e.musicSource, now, raises)
         IN  IF r.thrown # "none"
             THEN [e EXCEPT !.thrown = r.thrown]
             ELSE [e EXCEPT !.graph = sourceDisconnect(r.graph, e.musicSource, now),
                            !.musicSource = NULL]
    ELSE e

\* if (this.musicSource) { try { stop() } catch(e) {}; disconnect(); = null }
stopMusic(e, now, raises) ==
    IF e.musicSource # NULL
    THEN LET r == sourceStop(e.graph, e.musicSource, now, raises)
         IN  [e EXCEPT !.graph = sourceDisconnect(r.graph, e.musicSource, now),
                       !.musicSource = NULL]
    ELSE e

\* Variant of stopVoice: the node is stopped and forgotten, but left connected.
stopVoiceNoDisconnect(e, now, raises) ==
    IF e.voiceSource # NULL
    THEN LET r == sourceStop(e.graph, e.voiceSource, now, raises)
         IN  [e EXCEPT !.graph = r.graph, !.voiceSource = NULL]
    ELSE e

\* if (this.voiceSource) { try { stop() } catch(e) {}; disconnect(); = null }
stopVoice(e, now, raises) ==
    IF e.voiceSource # NULL
    THEN LET r == sourceStop(e.graph, e.voiceSource, now, raises)
         IN  [e EXCEPT !.graph = sourceDisconnect(r.graph, e.voiceSource, now),
                       !.voiceSource = NULL]
    ELSE e

\* Variant of stop: the voice handle is left alone.
stopMusicOnly(e, now, raises) == stopMusic(e, now, raises)

\* AudioEngine.stop(): an exception that escapes a statement ends the call there.
stop(e, now, raises) ==
    LET e1 == stopMusic(e, now, raises)
    IN  IF e1.thrown # "none" THEN e1 ELSE stopVoice(e1, now, raises)

\* Variant of teardown: this.stop() left out of schedulePlayback.
noStop(e, now, raises) == e

\* Variant of setAnchor: the anchor set to the device time itself.
setAnchorNoOffset(e, now, offset) == [e EXCEPT !.startTime = now]

\* Variant of setAnchor: the anchor of the playback before is kept.
setAnchorKept(e, now, offset) == e

\* const now = this.ctx.currentTime; this.startTime = now - offset
setAnchor(e, now, offset) == [e EXCEPT !.startTime = now - offset]

\* Variant of scheduleMusic: the skip rule written as offset <= duration.
scheduleMusicLeq(e, now, music, offset, g) ==
    IF music # NULL /\ offset <= duration(music)
    THEN [e EXCEPT !.musicSource = Ref(g, "music"),
                   !.graph = startSource(e.graph, Ref(g, "music"), music, now, offset)]
    ELSE e

\* Variant of scheduleMusic: the background always reads from its beginning.
scheduleMusicFromStart(e, now, music, offset, g) ==
    IF music # NULL /\ offset < duration(music)
    THEN [e EXCEPT !.musicSource = Ref(g, "music"),
                   !.graph = startSource(e.graph, Ref(g, "music"), music, now, 0)]
    ELSE e

\* Schedule Music
scheduleMusic(e, now, music, offset, g) ==
    IF music # NULL /\ offset < duration(music)
    THEN [e EXCEPT !.musicSource = Ref(g, "music"),
                   !.graph = startSource(e.graph, Ref(g, "music"), music, now, offset)]
    ELSE e

\* Variant of scheduleVoice: the skip rule compares the offset with the voice's
\* duration alone.
scheduleVoiceNoStart(e, now, voice, voiceStart, offset, g) ==
    IF voice # NULL /\ offset < duration(voice)
    THEN [e EXCEPT !.voiceSource = Ref(g, "voice"),
                   !.graph = startSource(e.graph, Ref(g, "voice"), voice,
                                         now + (voiceStart - offset), 0)]
    ELSE e

\* Variant of voiceStartArgs: the pre-roll delay is the voice start time itself.
voiceStartArgsNoOffset(now, voiceStart, offset) ==
    IF offset <= voiceStart
    THEN [when |-> now + voiceStart, offset |-> 0]
    ELSE [when |-> now, offset |-> offset - voiceStart]

\* Variant of voiceStartArgs: a mid-clip resume reads from the timeline offset.
voiceStartArgsAbs(now, voiceStart, offset) ==
    IF offset <= voiceStart
    THEN [when |-> now + (voiceStart - offset), offset |-> 0]
    ELSE [when |-> now, offset |-> offset]

\* The arguments of this.voiceSource.start(when, offset).
voiceStartArgs(now, voiceStart, offset) ==
    IF offset <= voiceStart
    THEN [when |-> now + (voiceStart - offset), offset |-> 0]
    ELSE [when |-> now, offset |-> offset - voiceStart]

\* Schedule Voice
scheduleVoice(e, now, voice, voiceStart, offset, g) ==
    IF voice # NULL /\ offset < voiceStart + duration(voice)
    THEN LET a == voiceStartArgs(now, voiceStart, offset)
         IN  [e EXCEPT !.voiceSource = Ref(g, "voice"),
                       !.graph = startSource(e.graph, Ref(g, "voice"), voice,
                                             a.when, a.offset)]
    ELSE e

\* The teardown schedulePlayback begins with: this.stop().
teardown(e, now, raises) == stop(e, now, raises)

\* AudioEngine.schedulePlayback; g identifies the nodes this call creates.
schedulePlayback(e, now, music, voice, voiceStart, offset, g, raises) ==
    LET e0 == teardown(e, now, raises)
    IN  IF e0.thrown # "none" THEN e0
        ELSE scheduleVoice(
               scheduleMusic(setAnchor(e0, now, offset), now, music, offset, g),
               now, voice, voiceStart, offset, g)

\* A playhead read off the device clock alone, without the anchor.
getCurrentTimeNoAnchor(e, now) == now

\* AudioEngine.getCurrentTime
getCurrentTime(e, now) == now - e.startTime

(***************************************************************************)
(* Samples.  A channel of an AudioBuffer holds Float32 samples; the model  *)
(* writes the sample n / SampleUnit as the integer n, so that 1.0 is       *)
(* SampleUnit and 0.5 is SampleUnit \div 2.  The unit is that of 16-bit    *)
(* PCM, so what the decoder produces and the products of the encoder are   *)
(* exact.                                                                  *)
(***************************************************************************)
SampleUnit == 32768

\* Math.max(-1, Math.min(1, x))
clamp(x) == IF x > SampleUnit THEN SampleUnit
            ELSE IF x < -SampleUnit THEN -SampleUnit ELSE x

\* x|0 for the number num / den: ToInt32 drops the fraction, toward zero
\* (magnitudes stay below 2^31).
toInt32(num, den) == IF num < 0 THEN -((-num) \div den) ELSE num \div den

\* Variant of scale: one factor, 32768, for every sample.
scaleSymmetric(sample) == toInt32(sample * 32768, SampleUnit)

\* (0.5 + sample < 0 ? sample * 32768 : sample * 32767)|0
scale(sample) ==
    IF SampleUnit \div 2 + sample < 0
    THEN toInt32(sample * 32768, SampleUnit)
    ELSE toInt32(sample * 32767, SampleUnit)

\* The two statements of the inner loop that compute the 16-bit sample.
quantize(x) == scale(clamp(x))

(***************************************************************************)
(* AudioEngine.decodeRawPCM.  An ArrayBuffer is a function from byte       *)
(* offsets to bytes.                                                       *)
(***************************************************************************)
byteLength(arrayBuffer) == Cardinality(DOMAIN arrayBuffer)

\* Variant of elementInt16: the two bytes read big-endian.
elementInt16BE(arrayBuffer, k) ==
    LET u == 256 * arrayBuffer[2 * k] + arrayBuffer[2 * k + 1]
    IN  IF u >= 32768 THEN u - 65536 ELSE u

\* Element k of new Int16Array(arrayBuffer): two bytes in the byte order of
\* the platform, little-endian, as a two's-complement number.
elementInt16(arrayBuffer, k) ==
    LET u == arrayBuffer[2 * k] + 256 * arrayBuffer[2 * k + 1]
    IN  IF u >= 32768 THEN u - 65536 ELSE u

\* new Int16Array(arrayBuffer) raises RangeError unless the byte length is a
\* multiple of the element size 2.
newInt16Array(arrayBuffer) ==
    IF byteLength(arrayBuffer) % 2 # 0
    THEN [thrown |-> "RangeError"]
    ELSE [thrown |-> "none",
          length |-> byteLength(arrayBuffer) \div 2,
          at |-> [k \in 0..(byteLength(arrayBuffer) \div 2 - 1) |->
                    elementInt16(arrayBuffer, k)]]

\* decodeRawPCM(arrayBuffer, sampleRate, numChannels): the exception the
\* returned promise is rejected with, or the buffer it resolves to.
\* frameCount = dataInt16.length / numChannels is a number, not an integer
\* quotient; createBuffer converts it to an unsigned long, which drops the
\* fraction, and raises NotSupportedError for a length of 0.  The loop runs
\* while i < frameCount; a store at an index the channel does not have is
\* ignored, so the stores that take effect are those of the buffer's frames.
decodeRawPCM(arrayBuffer, sampleRate, numChannels) ==
    LET dataInt16 == newInt16Array(arrayBuffer)
    IN  IF dataInt16.thrown # "none" THEN [thrown |-> dataInt16.thrown]
        ELSE LET length == dataInt16.length \div numChannels
             IN  IF length = 0 THEN [thrown |-> "NotSupportedError"]
                 ELSE [thrown |-> "none",
                       buffer |->
                         [numberOfChannels |-> numChannels, length |-> length,
                          sampleRate |-> sampleRate,
                          channelData |->
                            [channel \in 0..(numChannels - 1) |->
                               [i \in 0..(length - 1) |->
                                  (dataInt16.at[i * numChannels + channel] * SampleUnit)
                                    \div 32768]]]]

(***************************************************************************)
(* AudioEngine.bufferToWave.  The output is the content of the ArrayBuffer *)
(* the Blob is made of: a function from byte offsets to bytes.             *)
(***************************************************************************)
\* new ArrayBuffer(length): zero-filled
newArrayBuffer(length) == [k \in 0..(length - 1) |-> 0]

\* Variant of viewSetUint16: big-endian.
viewSetUint16BE(view, at, data) ==
    [view EXCEPT ![at] = (data \div 256) % 256, ![at + 1] = data % 256]

\* DataView.setUint16(at, data, true) and setUint32(at, data, true):
\* little-endian (data is below 2^31 wherever the engine calls them)
viewSetUint16(view, at, data) ==
    [view EXCEPT ![at] = data % 256, ![at + 1] = (data \div 256) % 256]
viewSetUint32(view, at, data) ==
    [view EXCEPT ![at] = data % 256,
                 ![at + 1] = (data \div 256) % 256,
                 ![at + 2] = (data \div 65536) % 256,
                 ![at + 3] = (data \div 16777216) % 256]
\* DataView.setInt16(at, data, true): data modulo 2^16, in two's complement
viewSetInt16(view, at, data) == viewSetUint16(view, at, data % 65536)

\* The local functions setUint16 and setUint32: they write at pos and
\* advance pos.  w is the pair of the closure's variables view and pos.
setUint16(w, data) == [view |-> viewSetUint16(w.view, w.pos, data), pos |-> w.pos + 2]
setUint32(w, data) == [view |-> viewSetUint32(w.view, w.pos, data), pos |-> w.pos + 4]

\* "write WAVE header": the thirteen calls, in order.
writeHeader(abuffer, numOfChan, length) ==
    LET w0  == [view |-> newArrayBuffer(length), pos |-> 0]
        w1  == setUint32(w0, 1179011410)                 \* 0x46464952 "RIFF"
        w2  == setUint32(w1, length - 8)
        w3  == setUint32(w2, 1163280727)                 \* 0x45564157 "WAVE"
        w4  == setUint32(w3, 544501094)                  \* 0x20746d66 "fmt "
        w5  == setUint32(w4, 16)
        w6  == setUint16(w5, 1)
        w7  == setUint16(w6, numOfChan)
        w8  == setUint32(w7, abuffer.sampleRate)
        w9  == setUint32(w8, abuffer.sampleRate * 2 * numOfChan)
        w10 == setUint16(w9, numOfChan * 2)
        w11 == setUint16(w10, 16)
        w12 == setUint32(w11, 1635017060)                \* 0x61746164 "data"
    IN  setUint32(w12, length - w12.pos - 4)

\* for(i = 0; i < numOfChan; i++) { ... }: one frame, from channel i on.
\* d is the triple of the variables view, pos and offset.
RECURSIVE interleaveChannels(_, _, _, _)
interleaveChannels(d, abuffer, numOfChan, i) ==
    IF i < numOfChan
    THEN interleaveChannels(
           [d EXCEPT !.view = viewSetInt16(d.view, 44 + d.offset,
                                           quantize(abuffer.channelData[i][d.pos])),
                     !.offset = d.offset + 2],
           abuffer, numOfChan, i + 1)
    ELSE d

\* while(pos < len) { for ...; pos++ }
RECURSIVE writeData(_, _, _, _)
writeData(d, abuffer, numOfChan, len) ==
    IF d.pos < len
    THEN LET d1 == interleaveChannels(d, abuffer, numOfChan, 0)
         IN  writeData([d1 EXCEPT !.pos = d1.pos + 1], abuffer, numOfChan, len)
    ELSE d

\* bufferToWave(abuffer, len): the bytes of the returned Blob.  pos is one
\* variable, shared by the header writers and the data loop.
bufferToWave(abuffer, len) ==
    LET numOfChan == abuffer.numberOfChannels
        length == len * numOfChan * 2 + 44
        w == writeHeader(abuffer, numOfChan, length)
    IN  writeData([view |-> w.view, pos |-> w.pos, offset |-> 0],
                  abuffer, numOfChan, len).view

(***************************************************************************)
(* AudioEngine.renderToBlob.                                               *)
(***************************************************************************)
\* let duration = 0; if (musicBuffer) ...; if (voiceBuffer) ...
renderDuration(music, voice, voiceStart) ==
    LET d1 == IF music # NULL THEN Max(0, duration(music)) ELSE 0
    IN  IF voice # NULL THEN Max(d1, voiceStart + duration(voice)) ELSE d1

\* Variant of offlineLength: the length rounded to the nearest frame.
offlineLengthRounded(d) == (2 * d * RenderSampleRate + TimeBase) \div (2 * TimeBase)

\* The length argument of new OfflineAudioContext(2, duration * 44100, 44100):
\* the number duration * 44100 is converted to an unsigned long, which drops
\* its fraction (d is in ticks; products below 2^32 only).
offlineLength(d) == (d * RenderSampleRate) \div TimeBase

\* The content of the sources.  The renderer reads a source through the
\* platform's resampler and channel mixer; the model gives every frame of
\* the background the level MusicLevel and every frame of the voice the
\* level VoiceLevel on all channels, which both leave unchanged, so that
\* the sample of the mix at a time tells which sources sound at that time.
MusicLevel == SampleUnit \div 4
VoiceLevel == SampleUnit \div 2

\* What a source started with start(when) on buffer contributes at time t.
sourceAt(buffer, level, when, t) ==
    IF buffer # NULL /\ when <= t /\ t < when + duration(buffer) THEN level ELSE 0

\* offlineCtx.startRendering() after src.start(0) on the background and
\* src.start(voiceStartTime) on the voice, both connected to the
\* destination: frame j of the result is the sum of the sources at the time
\* of frame j.
startRendering(music, voice, voiceStart, len) ==
    [numberOfChannels |-> RenderChannels, length |-> len,
     sampleRate |-> RenderSampleRate,
     channelData |->
       [c \in 0..(RenderChannels - 1) |->
          [j \in 0..(len - 1) |->
             sourceAt(music, MusicLevel, 0, j * TimeStep)
               + sourceAt(voice, VoiceLevel, voiceStart, j * TimeStep)]]]

\* Variant of renderToBlob: the empty-mix check left out.
renderToBlobNoCheck(music, voice, voiceStart) ==
    LET d == renderDuration(music, voice, voiceStart)
        len == offlineLength(d)
    IN  IF len = 0
        THEN [thrown |-> "NotSupportedError"]
        ELSE LET renderedBuffer == startRendering(music, voice, voiceStart, len)
             IN  [thrown |-> "none", rendered |-> renderedBuffer,
                  blob |-> bufferToWave(renderedBuffer, renderedBuffer.length)]

\* renderToBlob: the exception it throws, or the buffer startRendering()
\* resolves to and the Blob made of it.  The constructor of OfflineAudioContext raises
\* NotSupportedError for a length of 0.
renderToBlob(music, voice, voiceStart) ==
    LET d == renderDuration(music, voice, voiceStart)
        len == offlineLength(d)
    IN  IF d = 0
        THEN [thrown |-> "Nothing to render"]
        ELSE IF len = 0
        THEN [thrown |-> "NotSupportedError"]
        ELSE LET renderedBuffer == startRendering(music, voice, voiceStart, len)
             IN  [thrown |-> "none", rendered |-> renderedBuffer,
                  blob |-> bufferToWave(renderedBuffer, renderedBuffer.length)]

(***************************************************************************)
(* The callers of the engine.                                              *)
(***************************************************************************)
\* schedulePlayback and stop read nothing of a buffer but its duration: their
\* callers draw buffers of one format, whose durations lie on the time grid.
PlaybackBuffers ==
    {b \in AudioBuffers : b.numberOfChannels = 1 /\ b.sampleRate = RenderSampleRate}

\* What the platform may do when stop() is called on a node: raise or not if
\* one of the engine's nodes has played to its end, not raise otherwise.
RaiseChoices ==
    IF \E n \in graph : Ended(n, ctxCurrentTime) THEN SUBSET Kinds ELSE {{}}

\* A caller invokes engine.schedulePlayback with arguments of its choice.
CallSchedulePlayback ==
    /\ gen < MaxGen
    /\ \E music \in {NULL} \cup PlaybackBuffers, voice \in {NULL} \cup PlaybackBuffers,
          voiceStart \in Times, offset \in Times, raises \in RaiseChoices :
          \E e \in {schedulePlayback(Engine, ctxCurrentTime, music, voice, voiceStart,
                                     offset, gen + 1, raises)} :
              /\ SetEngine(e)
              /\ call' = [op |-> "schedulePlayback", now |-> ctxCurrentTime,
                          music |-> music, voice |-> voice, voiceStart |-> voiceStart,
                          offset |-> offset, thrown |-> e.thrown,
                          prior |-> Cardinality(graph)]
    /\ gen' = gen + 1
    /\ UNCHANGED <<ctxVars, uiVars>>

\* A caller invokes engine.stop().
CallStop ==
    /\ \E raises \in RaiseChoices :
          \E e \in {stop(Engine, ctxCurrentTime, raises)} :
              /\ SetEngine(e)
              /\ call' = [op |-> "stop", now |-> ctxCurrentTime, thrown |-> e.thrown,
                          idle |-> (musicSource = NULL /\ voiceSource = NULL),
                          same |-> (e = Engine),
                          raised |-> {n.kind : n \in {m \in graph :
                                        Ended(m, ctxCurrentTime) /\ m.kind \in raises}}]
    /\ UNCHANGED <<ctxVars, gen, uiVars>>

\* AudioEngine.play(): if (this.ctx.state === 'suspended') this.ctx.resume()
CallPlay ==
    /\ ctxState' = IF ctxState = "suspended" THEN "running" ELSE ctxState
    /\ UNCHANGED <<ctxCurrentTime, engineVars, gen, call, uiVars>>

\* A caller invokes engine.getCurrentTime().
CallGetCurrentTime ==
    /\ call' = [op |-> "getCurrentTime", now |-> ctxCurrentTime,
                value |-> getCurrentTime(Engine, ctxCurrentTime)]
    /\ UNCHANGED <<ctxVars, engineVars, gen, uiVars>>

\* The device clock of a running context advances.
Tick ==
    /\ ctxState = "running"
    /\ ctxCurrentTime < MaxClock * TimeStep
    /\ ctxCurrentTime' = ctxCurrentTime + TimeStep
    /\ UNCHANGED <<ctxState, engineVars, gen, call, uiVars>>

\* A caller invokes engine.renderToBlob on the buffers at hand.
CallRenderToBlob ==
    /\ call' = [op |-> "renderToBlob", music |-> musicBuffer, voice |-> voiceBuffer,
                voiceStart |-> voiceStartTime,
                result |-> renderToBlob(musicBuffer, voiceBuffer, voiceStartTime)]
    /\ UNCHANGED <<ctxVars, engineVars, gen, uiVars>>

\* App.handleDownload up to its await: the guard, setIsGenerating(true), and
\* the call of engine.renderToBlob with the state the handler closed over.
\* The button is disabled while isGenerating (one render pending at most); the
\* handler is followed in the states without a buffer too, where its own guard
\* returns.
HandleDownloadStart ==
    /\ ~effectPending
    /\ pendingRender = NULL
    /\ ~isGenerating
    /\ Cardinality(downloads) < MaxDownloads
    /\ IF musicBuffer = NULL /\ voiceBuffer = NULL
       THEN /\ call' = [op |-> "handleDownload", returned |-> "early"]
            /\ UNCHANGED uiVars
       ELSE /\ isGenerating' = TRUE
            /\ pendingRender' = [music |-> musicBuffer, voice |-> voiceBuffer,
                                 voiceStart |-> voiceStartTime]
            /\ call' = [op |-> "handleDownload", returned |-> "await"]
            /\ UNCHANGED <<musicBuffer, voiceBuffer, voiceStartTime, error, downloads,
                           timelineVars>>
    /\ UNCHANGED <<ctxVars, engineVars, gen>>

\* App.handleDownload after its await: a.click() on the blob, or setError in
\* the catch; setIsGenerating(false) in the finally.
HandleDownloadFinish ==
    /\ pendingRender # NULL
    /\ LET r == renderToBlob(pendingRender.music, pendingRender.voice,
                             pendingRender.voiceStart)
       IN  /\ IF r.thrown = "none"
              THEN /\ downloads' = downloads \cup {r.blob}
                   /\ UNCHANGED error
              ELSE /\ error' = [message |-> "Failed to render audio."]
                   /\ UNCHANGED downloads
           /\ call' = [op |-> "renderToBlob", music |-> pendingRender.music,
                       voice |-> pendingRender.voice,
                       voiceStart |-> pendingRender.voiceStart, result |-> r]
    /\ isGenerating' = FALSE
    /\ pendingRender' = NULL
    /\ UNCHANGED <<ctxVars, engineVars, gen, musicBuffer, voiceBuffer, voiceStartTime,
                   timelineVars>>

(***************************************************************************)
(* The UI's handlers that load the buffers.  A handler with awaits is two  *)
(* actions: up to its first await, and from there to its end with what the *)
(* awaited calls gave.  After an await the handler still reads the state   *)
(* of the render it was created in, which the first action records.  The   *)
(* handlers read nothing of a buffer but its duration.                     *)
(***************************************************************************)
\* Files that decode to one of buffers; the file of content NULL is no audio
\* file, and decodeAudio rejects it.
Files(buffers) == {[content |-> c] : c \in buffers}

\* x?.duration || 0
durationOr0(buffer) == IF buffer = NULL THEN 0 ELSE duration(buffer)

\* App.handleFileUpload up to its first await: the guard on the file and
\* setBackgroundFile(file).  files holds what the user may choose, NULL for
\* no file.  One upload is followed at a time.
HandleFileUploadStart(files) ==
    /\ ~effectPending
    /\ pendingUpload = NULL
    /\ \E file \in files :
         IF file = NULL
         THEN /\ call' = [op |-> "handleFileUpload", returned |-> "early"]
              /\ UNCHANGED uiVars
         ELSE /\ backgroundFile' = file
              /\ pendingUpload' = [file |-> file, voiceBuffer |-> voiceBuffer,
                                   voiceStartTime |-> voiceStartTime]
              /\ call' = [op |-> "handleFileUpload", returned |-> "await"]
              /\ UNCHANGED <<musicBuffer, voiceBuffer, voiceStartTime, isGenerating,
                             error, pendingRender, downloads, isPlaying, currentTime,
                             appDuration, pendingVoice, effectPending, recorded>>
    /\ UNCHANGED <<ctxVars, engineVars, gen>>

\* Math.max(audioBuffer.duration, (voiceBuffer?.duration || 0) + voiceStartTime)
uploadDuration(audioBuffer, voice, voiceStart) ==
    Max(duration(audioBuffer), durationOr0(voice) + voiceStart)

\* App.handleFileUpload after its awaits: the decoded buffer is stored, or
\* the catch sets the error.
HandleFileUploadFinish ==
    /\ pendingUpload # NULL
    /\ LET audioBuffer == pendingUpload.file.content
       IN  IF audioBuffer # NULL
           THEN /\ musicBuffer' = audioBuffer
                /\ appDuration' = uploadDuration(audioBuffer, pendingUpload.voiceBuffer,
                                                 pendingUpload.voiceStartTime)
                /\ voiceStartTime' = IF pendingUpload.voiceStartTime = 0
                                     THEN duration(audioBuffer) ELSE voiceStartTime
                /\ effectPending' = (effectPending \/ isPlaying)
                /\ call' = [op |-> "handleFileUpload", returned |-> "loaded"]
                /\ UNCHANGED error
           ELSE /\ error' = [message |-> "Failed to load audio file. Please try a valid MP3 or WAV."]
                /\ call' = [op |-> "handleFileUpload", returned |-> "failed"]
                /\ UNCHANGED <<musicBuffer, appDuration, voiceStartTime, effectPending>>
    /\ pendingUpload' = NULL
    /\ UNCHANGED <<ctxVars, engineVars, gen, voiceBuffer, isGenerating, pendingRender,
                   downloads, backgroundFile, isPlaying, currentTime, pendingVoice,
                   recorded>>

\* App.handleGenerateVoice up to its first await.  The button is disabled
\* while isGenerating; blank tells whether prompt.trim() is empty.
HandleGenerateVoiceStart ==
    /\ ~effectPending
    /\ ~isGenerating
    /\ \E blank \in BOOLEAN :
         IF blank
         THEN /\ call' = [op |-> "handleGenerateVoice", returned |-> "early"]
              /\ UNCHANGED uiVars
         ELSE /\ isGenerating' = TRUE
              /\ error' = NULL
              /\ pendingVoice' = [musicBuffer |-> musicBuffer]
              /\ call' = [op |-> "handleGenerateVoice", returned |-> "await"]
              /\ UNCHANGED <<musicBuffer, voiceBuffer, voiceStartTime, pendingRender,
                             downloads, backgroundFile, isPlaying, currentTime,
                             appDuration, pendingUpload, effectPending, recorded>>
    /\ UNCHANGED <<ctxVars, engineVars, gen>>

\* Variant of catchMessage: no message.
catchMessageNone(thrown) == NULL

\* setError(err.message || "Failed to generate speech."): every exception
\* the handler meets carries a message, which the model takes as its name.
catchMessage(thrown) == [message |-> thrown]

\* Math.max(musicDur, startTime + audioBuffer.duration)
voiceDuration(musicDur, start, audioBuffer) ==
    Max(musicDur, start + duration(audioBuffer))

\* App.handleGenerateVoice after its awaits.  responses holds what the two
\* awaited calls may give: the exception of generateSpeech or of
\* decodeRawPCM, or the decoded buffer.
HandleGenerateVoiceFinish(responses) ==
    /\ pendingVoice # NULL
    /\ \E r \in responses :
         IF r.thrown = "none"
         THEN LET musicDur == durationOr0(pendingVoice.musicBuffer)
                  start == IF musicDur > 0 THEN musicDur ELSE 0
              IN  /\ voiceBuffer' = r.buffer
                  /\ voiceStartTime' = start
                  /\ appDuration' = voiceDuration(musicDur, start, r.buffer)
                  /\ effectPending' = (effectPending \/ isPlaying)
                  /\ call' = [op |-> "handleGenerateVoice", returned |-> "generated"]
                  /\ UNCHANGED error
         ELSE /\ error' = catchMessage(r.thrown)
              /\ call' = [op |-> "handleGenerateVoice", returned |-> "failed"]
              /\ UNCHANGED <<voiceBuffer, voiceStartTime, appDuration, effectPending>>
    /\ isGenerating' = FALSE
    /\ pendingVoice' = NULL
    /\ UNCHANGED <<ctxVars, engineVars, gen, musicBuffer, pendingRender, downloads,
                   backgroundFile, isPlaying, currentTime, pendingUpload, recorded>>

(***************************************************************************)
(* The UI's handlers of the timeline: play/pause, the two sliders and the  *)
(* draw loop.  They run to their end in one step and read the state of the *)
(* latest render.  The effect that holds the draw loop calls draw() itself *)
(* whenever one of its dependencies (isPlaying, duration, currentTime, the *)
(* buffers, voiceStartTime) has changed, and React runs a pending effect   *)
(* before it handles the next user event: effectPending is that run being  *)
(* due on a playing UI, and the handlers of user events wait for it.  A    *)
(* run of draw on a paused UI only paints and is left out.                 *)
(***************************************************************************)
\* step={0.1} of both range inputs
SliderStep == TimeBase \div 10

\* The values a range input with min 0, the given max and step 0.1 can take;
\* the first MaxSlider steps of them are followed.
sliderValues(max) ==
    {k * SliderStep : k \in 0..Min(max \div SliderStep, MaxSlider)}

\* App.togglePlayback.  The button is disabled while no buffer is loaded.
TogglePlayback ==
    /\ ~effectPending
    /\ musicBuffer # NULL \/ voiceBuffer # NULL
    /\ IF isPlaying
       THEN /\ \E raises \in RaiseChoices :
                 \E e \in {stop(Engine, ctxCurrentTime, raises)} :
                    /\ SetEngine(e)
                    /\ isPlaying' = IF e.thrown = "none" THEN FALSE ELSE isPlaying
            /\ call' = [op |-> "togglePlayback", engine |-> "stop"]
            /\ UNCHANGED <<ctxVars, gen>>
       ELSE /\ gen < MaxGen
            /\ \E raises \in RaiseChoices :
                 \E e \in {schedulePlayback(Engine, ctxCurrentTime, musicBuffer, voiceBuffer,
                                            voiceStartTime, currentTime, gen + 1, raises)} :
                    /\ SetEngine(e)
                    /\ ctxState' = IF e.thrown = "none" THEN "running" ELSE ctxState
                    /\ isPlaying' = IF e.thrown = "none" THEN TRUE ELSE isPlaying
            /\ gen' = gen + 1
            /\ call' = [op |-> "togglePlayback", engine |-> "schedulePlayback",
                        now |-> ctxCurrentTime, offset |-> currentTime]
            /\ UNCHANGED ctxCurrentTime
    /\ effectPending' = isPlaying'
    /\ UNCHANGED <<musicBuffer, voiceBuffer, voiceStartTime, isGenerating, error,
                   pendingRender, downloads, backgroundFile, currentTime, appDuration,
                   pendingUpload, pendingVoice, recorded>>

\* App.handleSeek on a value of the seek slider, whose max is duration || 1.
HandleSeek ==
    /\ ~effectPending
    /\ \E time \in sliderValues(IF appDuration = 0 THEN TimeBase ELSE appDuration) :
         /\ currentTime' = time
         /\ effectPending' = (isPlaying /\ time # currentTime)
         /\ recorded' = NULL
         /\ IF isPlaying
            THEN /\ gen < MaxGen
                 /\ \E raises \in RaiseChoices :
                      \E e \in {schedulePlayback(stop(Engine, ctxCurrentTime, raises),
                                                 ctxCurrentTime, musicBuffer, voiceBuffer,
                                                 voiceStartTime, time, gen + 1, {})} :
                         SetEngine(e)
                 /\ gen' = gen + 1
                 /\ ctxState' = "running"
                 /\ call' = [op |-> "handleSeek", engine |-> "schedulePlayback",
                             now |-> ctxCurrentTime, offset |-> time]
                 /\ UNCHANGED ctxCurrentTime
            ELSE /\ call' = [op |-> "handleSeek", engine |-> "none", offset |-> time]
                 /\ UNCHANGED <<ctxVars, engineVars, gen>>
    /\ UNCHANGED <<musicBuffer, voiceBuffer, voiceStartTime, isGenerating, error,
                   pendingRender, downloads, backgroundFile, isPlaying, appDuration,
                   pendingUpload, pendingVoice>>

\* App.handleVoicePositionChange on a value of the voice slider, which is
\* shown while a voice is loaded and whose max is duration.  While playing it
\* calls togglePlayback(), which stops.
HandleVoicePositionChange ==
    /\ ~effectPending
    /\ voiceBuffer # NULL
    /\ \E newStart \in sliderValues(appDuration) :
         /\ voiceStartTime' = newStart
         /\ appDuration' = Max(durationOr0(musicBuffer), newStart + durationOr0(voiceBuffer))
         /\ call' = [op |-> "handleVoicePositionChange", newStart |-> newStart,
                     engine |-> IF isPlaying THEN "stop" ELSE "none"]
    /\ IF isPlaying
       THEN \E raises \in RaiseChoices :
              \E e \in {stop(Engine, ctxCurrentTime, raises)} :
                 /\ SetEngine(e)
                 /\ isPlaying' = IF e.thrown = "none" THEN FALSE ELSE isPlaying
       ELSE UNCHANGED <<engineVars, isPlaying>>
    /\ UNCHANGED <<ctxVars, gen, musicBuffer, voiceBuffer, isGenerating, error,
                   pendingRender, downloads, backgroundFile, currentTime,
                   pendingUpload, pendingVoice, effectPending, recorded>>

\* One run of draw while playing, from the effect or as the animation-frame
\* callback: the playhead follows the engine, or playback ends.  While not
\* playing it only paints.  The re-run of the effect that its own
\* setCurrentTime causes is a further run of draw, which records the same
\* playhead unless the device clock has advanced.
Draw ==
    /\ isPlaying
    /\ LET t == getCurrentTime(Engine, ctxCurrentTime)
       IN  /\ IF t >= appDuration
              THEN /\ isPlaying' = FALSE
                   /\ currentTime' = 0
                   /\ \E raises \in RaiseChoices :
                        SetEngine(stop(Engine, ctxCurrentTime, raises))
              ELSE /\ currentTime' = t
                   /\ UNCHANGED <<engineVars, isPlaying>>
           /\ call' = [op |-> "draw", t |-> t]
    /\ effectPending' = FALSE
    /\ recorded' = [t |-> currentTime', at |-> ctxCurrentTime]
    /\ UNCHANGED <<ctxVars, gen, musicBuffer, voiceBuffer, voiceStartTime, isGenerating,
                   error, pendingRender, downloads, backgroundFile, appDuration,
                   pendingUpload, pendingVoice>>

\* The time between two looks at the device clock of the UI.
ClockStep == TimeBase \div 20

\* The device clock of a running context advances by a ClockStep.
TickUI ==
    /\ ctxState = "running"
    /\ ctxCurrentTime < MaxUiClock * ClockStep
    /\ ctxCurrentTime' = ctxCurrentTime + ClockStep
    /\ UNCHANGED <<ctxState, engineVars, gen, call, uiVars>>

(***************************************************************************)
(* The PCM decoder called on byte sequences of every length.               *)
(***************************************************************************)
\* The bytes the inputs are made of: read in pairs from an even offset they
\* are the 16-bit numbers 32767, -32768, -1, 0 and 1.
PcmPattern == <<255, 127, 0, 128, 255, 255, 0, 0, 1, 0>>

\* Up to one byte more than the largest buffer of MaxChannels channels.
MaxBytes == 2 * MaxChannels * MaxFrames + 1

\* The n bytes of the pattern from its sample seed on.
PcmInput(n, seed) ==
    [k \in 0..(n - 1) |-> PcmPattern[((k + 2 * seed) % Len(PcmPattern)) + 1]]

\* Byte sequences of every length up to MaxBytes, empty and odd included.
PcmInputs == {PcmInput(n, seed) : n \in 0..MaxBytes, seed \in 0..4}

CallDecodeRawPCM ==
    /\ \E arrayBuffer \in PcmInputs, sampleRate \in SampleRates,
          numChannels \in 1..MaxChannels :
         call' = [op |-> "decodeRawPCM", arrayBuffer |-> arrayBuffer,
                  sampleRate |-> sampleRate, numChannels |-> numChannels,
                  result |-> decodeRawPCM(arrayBuffer, sampleRate, numChannels)]
    /\ UNCHANGED <<ctxVars, engineVars, gen, uiVars>>

(***************************************************************************)
(* The WAV encoder called on buffers of every format.                      *)
(***************************************************************************)
\* Sample values the encoder is given: a grid over [-1.5, 1.5] with the
\* neighbours of each grid point; it holds 0, 0.5, 1 and 1.5 of either sign.
Samples ==
    UNION {{g - 1, g, g + 1} : g \in {(k * SampleUnit) \div 16 : k \in -24..24}}

\* The values the test signals are made of.
TestSamples ==
    <<-(3 * SampleUnit) \div 2, -SampleUnit, -(SampleUnit \div 2) - 1,
      -(SampleUnit \div 2), -(SampleUnit \div 4), -1, 0, 1,
      SampleUnit \div 2, SampleUnit, (3 * SampleUnit) \div 2>>

\* getChannelData(c)[k] of a test signal: consecutive samples differ.
testSignal(numberOfChannels, length, seed) ==
    [c \in 0..(numberOfChannels - 1) |->
       [k \in 0..(length - 1) |->
          TestSamples[((k * numberOfChannels + c + seed) % Len(TestSamples)) + 1]]]

\* Frame counts below, at and above the size of the header.
WavLengths == (1..MaxFrames) \cup {44 + k : k \in 0..MaxFrames}

\* AudioBuffers with their samples.
SampleBuffers ==
    {[numberOfChannels |-> n, length |-> l, sampleRate |-> r,
      channelData |-> testSignal(n, l, seed)] :
        n \in 1..MaxChannels, l \in WavLengths, r \in SampleRates,
        seed \in 0..3}

\* bufferToWave(abuffer, abuffer.length), as renderToBlob calls it
CallBufferToWave ==
    /\ \E b \in SampleBuffers :
         call' = [op |-> "bufferToWave", abuffer |-> b, len |-> b.length,
                  blob |-> bufferToWave(b, b.length)]
    /\ UNCHANGED <<ctxVars, engineVars, gen, uiVars>>

\* One pass of the inner loop's body on a sample x: clamp, scale.
StepQuantize ==
    /\ \E x \in Samples :
         call' = [op |-> "quantize", sample |-> x, value |-> quantize(x)]
    /\ UNCHANGED <<ctxVars, engineVars, gen, uiVars>>

(***************************************************************************)
(* Spec: the engine after construction, driven by any sequence of calls.   *)
(***************************************************************************)
InitEngine ==
    /\ ctxCurrentTime = 0
    /\ ctxState \in {"suspended", "running"}
    /\ graph = {}
    /\ musicSource = NULL
    /\ voiceSource = NULL
    /\ startTime = 0
    /\ pausedAt = 0
    /\ gen = 0
    /\ call = [op |-> "constructor"]

InitTimeline ==
    /\ backgroundFile = NULL
    /\ isPlaying = FALSE
    /\ currentTime = 0
    /\ appDuration = 0
    /\ pendingUpload = NULL
    /\ pendingVoice = NULL
    /\ effectPending = FALSE
    /\ recorded = NULL

InitApp ==
    /\ musicBuffer = NULL
    /\ voiceBuffer = NULL
    /\ voiceStartTime = 0
    /\ isGenerating = FALSE
    /\ error = NULL
    /\ pendingRender = NULL
    /\ downloads = {}
    /\ InitTimeline

Init == InitEngine /\ InitApp

Next ==
    \/ CallSchedulePlayback
    \/ CallStop
    \/ CallPlay
    \/ CallGetCurrentTime
    \/ Tick

Spec == Init /\ [][Next]_vars

(***************************************************************************)
(* SpecRender: the offline renderer, called directly and through the UI's  *)
(* download handler, on buffers of every format and every voice start.     *)
(***************************************************************************)
InitRender ==
    /\ InitEngine
    /\ musicBuffer \in {NULL} \cup AudioBuffers
    /\ voiceBuffer \in {NULL} \cup AudioBuffers
    /\ voiceStartTime \in Times
    /\ isGenerating = FALSE
    /\ error = NULL
    /\ pendingRender = NULL
    /\ downloads = {}
    /\ InitTimeline

NextRender ==
    \/ CallRenderToBlob
    \/ HandleDownloadStart
    \/ HandleDownloadFinish

SpecRender == InitRender /\ [][NextRender]_vars

(***************************************************************************)
(* SpecLoad: the UI's handlers that load and render, each of which can     *)
(* fail: file upload, voice generation and download.                       *)
(***************************************************************************)
\* The buffers the files decode to: one frame at the rate of the mix, and
\* one frame at a higher rate, which is shorter than a frame of the mix.
LoadBuffers ==
    {b \in AudioBuffers : /\ b.numberOfChannels = 1 /\ b.length = 1
                          /\ b.sampleRate >= RenderSampleRate}

\* What decodeRawPCM(audioData, 24000) makes of the speech service's bytes:
\* no frame, one frame and two frames, and lengths that are odd.
SpeechDecoded == {decodeRawPCM(PcmInput(n, 0), VoiceSampleRate, 1) : n \in 0..5}

\* generateSpeech throws when the service returns no audio.
SpeechFailed == [thrown |-> "No audio data returned from Gemini."]

NextLoad ==
    \/ HandleFileUploadStart(Files(LoadBuffers \cup {NULL}) \cup {NULL})
    \/ HandleFileUploadFinish
    \/ HandleGenerateVoiceStart
    \/ HandleGenerateVoiceFinish(SpeechDecoded \cup {SpeechFailed})
    \/ HandleDownloadStart
    \/ HandleDownloadFinish

SpecLoad == Init /\ [][NextLoad]_vars

(***************************************************************************)
(* SpecUI: the UI from its first render, driven by any sequence of file    *)
(* uploads, voice generations, play/pause clicks, slider changes and draw  *)
(* callbacks, with buffers long enough for the sliders to move.            *)
(***************************************************************************)
\* A file that decodes to 0.15 s of stereo audio.
UiMusic ==
    {[numberOfChannels |-> 2, length |-> 3 * (RenderSampleRate \div 20),
      sampleRate |-> RenderSampleRate]}

\* Decoded speech of 0.1 s.
UiDecoded ==
    {[thrown |-> "none",
      buffer |-> [numberOfChannels |-> 1, length |-> VoiceSampleRate \div 10,
                  sampleRate |-> VoiceSampleRate]]}

NextUI ==
    \/ HandleFileUploadStart(Files(UiMusic))
    \/ HandleFileUploadFinish
    \/ HandleGenerateVoiceStart
    \/ HandleGenerateVoiceFinish(UiDecoded)
    \/ TogglePlayback
    \/ HandleSeek
    \/ HandleVoicePositionChange
    \/ Draw
    \/ TickUI

SpecUI == Init /\ [][NextUI]_vars

\* The device clock of a running context advances by a ClockStep: it is
\* followed for MaxUiClock steps and, past them, for as long as a playback
\* has not come to the end of the timeline.
TickPlay ==
    /\ ctxState = "running"
    /\ \/ ctxCurrentTime < MaxUiClock * ClockStep
       \/ isPlaying /\ getCurrentTime(Engine, ctxCurrentTime) < appDuration
    /\ ctxCurrentTime' = ctxCurrentTime + ClockStep
    /\ UNCHANGED <<ctxState, engineVars, gen, call, uiVars>>

(***************************************************************************)
(* SpecPlay: the timeline handlers on a loaded UI.  The initial states are *)
(* those the load handlers leave the UI in when they run one after the     *)
(* other: each buffer loaded or not, the voice where the handlers put it   *)
(* (at the end of the background), nothing pending and the playhead at 0.  *)
(* SpecRunFair follows the playbacks the user starts, pauses and seeks in,  *)
(* with a draw loop that keeps running (requestAnimationFrame re-arms it   *)
(* in every run) and a device clock that keeps advancing.                  *)
(***************************************************************************)
InitPlay ==
    /\ InitEngine
    /\ musicBuffer \in {NULL} \cup UiMusic
    /\ voiceBuffer \in {NULL} \cup {r.buffer : r \in UiDecoded}
    /\ voiceStartTime = durationOr0(musicBuffer)
    /\ appDuration = Max(durationOr0(musicBuffer),
                         voiceStartTime + durationOr0(voiceBuffer))
    /\ backgroundFile = IF musicBuffer = NULL THEN NULL ELSE [content |-> musicBuffer]
    /\ isPlaying = FALSE
    /\ currentTime = 0
    /\ isGenerating = FALSE
    /\ error = NULL
    /\ pendingRender = NULL
    /\ pendingUpload = NULL
    /\ pendingVoice = NULL
    /\ effectPending = FALSE
    /\ recorded = NULL
    /\ downloads = {}

NextPlay ==
    \/ TogglePlayback
    \/ HandleSeek
    \/ HandleVoicePositionChange
    \/ Draw
    \/ TickPlay

SpecPlay == InitPlay /\ [][NextPlay]_vars

NextRun ==
    \/ TogglePlayback
    \/ HandleSeek
    \/ Draw
    \/ TickPlay

SpecRunFair == InitPlay /\ [][NextRun]_vars /\ WF_vars(Draw) /\ WF_vars(TickPlay)

(***************************************************************************)
(* SpecPcm: the raw PCM decoder.                                           *)
(***************************************************************************)
NextPcm == CallDecodeRawPCM

SpecPcm == Init /\ [][NextPcm]_vars

(***************************************************************************)
(* SpecWav: the WAV encoder and its quantization step.                     *)
(***************************************************************************)
NextWav ==
    \/ CallBufferToWave
    \/ StepQuantize

SpecWav == Init /\ [][NextWav]_vars

(***************************************************************************)
(* Properties.  call holds the arguments and the device time of the last   *)
(* call, so a state predicate on call and on the engine's fields relates   *)
(* what a call was given to what it left behind.                           *)
(***************************************************************************)
Scheduled == call.op = "schedulePlayback"

MusicNode == Node(graph, musicSource)

VoiceNode == Node(graph, voiceSource)

\* C1: at most one generation of handles is live.  Every node the graph still
\* holds (not yet both finished and disconnected) was created by the latest
\* schedulePlayback call, and so were the nodes the engine refers to; the
\* nodes of every earlier call were stopped and disconnected before.
C1_OneGeneration ==
    /\ \A n \in graph : n.gen = gen
    /\ musicSource # NULL => musicSource.gen = gen /\ musicSource.kind = "music"
    /\ voiceSource # NULL => voiceSource.gen = gen /\ voiceSource.kind = "voice"
    /\ \A n \in graph : \/ musicSource = Ref(n.gen, n.kind)
                        \/ voiceSource = Ref(n.gen, n.kind)

\* A second generation with two handles, created by a call that found the two
\* handles of the generation before still in the graph.
C1_Witness ==
    /\ Scheduled /\ gen = 2 /\ call.prior = 2
    /\ Cardinality(graph) = 2
    /\ \A n \in graph : n.gen = 2

\* C2: a background handle is created if and only if a background buffer is
\* given and offset < its duration; it is started at the device time of the
\* call and reads the buffer from offset on.
C2_BackgroundRule ==
    Scheduled =>
        /\ (musicSource # NULL) <=>
              (call.music # NULL /\ call.offset < duration(call.music))
        /\ musicSource # NULL =>
              /\ MusicNode.buffer = call.music
              /\ MusicNode.when = call.now
              /\ MusicNode.offset = call.offset

\* A background started mid-buffer at a device time after 0.
C2_Witness ==
    /\ Scheduled /\ musicSource # NULL
    /\ call.offset > 0 /\ call.now > 0
    /\ MusicNode.offset = call.offset

\* C3: a voice handle is created if and only if a voice buffer is given and
\* offset < voiceStartTime + its duration.
C3_VoiceRule ==
    Scheduled =>
        /\ (voiceSource # NULL) <=>
              (call.voice # NULL
               /\ call.offset < call.voiceStart + duration(call.voice))
        /\ voiceSource # NULL => VoiceNode.buffer = call.voice

\* A voice clip that ends exactly at the offset, later than its own length,
\* is not started.
C3_Witness ==
    /\ Scheduled /\ call.voice # NULL /\ voiceSource = NULL
    /\ call.voiceStart > 0
    /\ call.offset = call.voiceStart + duration(call.voice)

\* C4: voice pre-roll.  With a voice buffer and offset <= voiceStartTime the
\* voice handle exists, starts at now + (voiceStartTime - offset) and reads
\* its buffer from 0.
C4_VoicePreRoll ==
    (Scheduled /\ call.voice # NULL /\ call.offset <= call.voiceStart) =>
        /\ voiceSource # NULL
        /\ VoiceNode.when = call.now + (call.voiceStart - call.offset)
        /\ VoiceNode.offset = 0

\* A voice scheduled ahead of a playhead that is itself past 0.
C4_Witness ==
    /\ Scheduled /\ voiceSource # NULL
    /\ 0 < call.offset /\ call.offset < call.voiceStart
    /\ VoiceNode.when > call.now

\* C5: voice mid-clip resume.  With a voice buffer and voiceStartTime < offset
\* < voiceStartTime + voiceDuration the voice handle starts at the device
\* time of the call and reads its buffer from offset - voiceStartTime.
C5_VoiceMidClip ==
    (Scheduled /\ call.voice # NULL /\ call.voiceStart < call.offset
       /\ call.offset < call.voiceStart + duration(call.voice)) =>
        /\ voiceSource # NULL
        /\ VoiceNode.when = call.now
        /\ VoiceNode.offset = call.offset - call.voiceStart

\* A resume inside a voice clip that does not start at 0.
C5_Witness ==
    /\ Scheduled /\ voiceSource # NULL
    /\ 0 < call.voiceStart /\ call.voiceStart < call.offset
    /\ VoiceNode.offset = call.offset - call.voiceStart

\* What a schedulePlayback or getCurrentTime call leaves behind.
C6_AfterCall ==
    /\ Scheduled =>
          /\ startTime = call.now - call.offset
          /\ getCurrentTime(Engine, call.now) = call.offset
    /\ call.op = "getCurrentTime" => call.value = call.now - startTime

\* A step that is not a schedulePlayback call keeps the anchor, and moves the
\* playhead by what the device clock advanced; getCurrentTime changes nothing
\* of the engine.
C6_Step ==
    /\ gen' = gen =>
          /\ startTime' = startTime
          /\ getCurrentTime(Engine', ctxCurrentTime')
                = getCurrentTime(Engine, ctxCurrentTime)
                    + (ctxCurrentTime' - ctxCurrentTime)
    /\ (call'.op = "getCurrentTime" /\ call' # call) =>
          /\ UNCHANGED <<engineVars, ctxVars>>
          /\ call'.value = getCurrentTime(Engine, ctxCurrentTime)

\* C6: schedulePlayback sets the anchor to deviceNow - offset and
\* getCurrentTime returns deviceNow - anchor: offset right after the call,
\* offset + d once the clock has advanced by d with no further
\* schedulePlayback call; getCurrentTime changes no engine state.
C6_Anchor == [](C6_AfterCall) /\ [][C6_Step]_vars

\* getCurrentTime read after the clock advanced past a call with a positive
\* offset made at time 0: it returns the offset plus the advance.
C6_Witness ==
    /\ call.op = "getCurrentTime" /\ gen > 0
    /\ startTime < 0
    /\ call.now > 0
    /\ call.value = call.now - startTime
    /\ call.value > call.now

\* C7: stop() never fails.  With zero, one or two handles, finished or not,
\* and whether or not halting a finished handle raises, it lets no exception
\* escape and leaves no handle; on an engine without handles it changes
\* nothing.  The stop() that schedulePlayback begins with never fails either.
C7_StopNeverFails ==
    /\ call.op = "stop" =>
          /\ call.thrown = "none"
          /\ musicSource = NULL /\ voiceSource = NULL
          /\ graph = {}
          /\ call.idle => call.same
    /\ Scheduled => call.thrown = "none"

\* stop() on two handles that had both played to their end, where the
\* platform raised for both.
C7_Witness ==
    /\ call.op = "stop"
    /\ call.raised = Kinds
    /\ call.thrown = "none"

\* C8 as stated: schedulePlayback with both buffers absent creates no handle,
\* tears the prior session down and changes nothing else of the session state.
C8_NoOpExceptTeardown ==
    [][(gen' = gen + 1 /\ call'.music = NULL /\ call'.voice = NULL) =>
          /\ musicSource' = NULL /\ voiceSource' = NULL
          /\ graph' = {}
          /\ startTime' = startTime
          /\ pausedAt' = pausedAt]_vars

\* C8, amended: schedulePlayback with both buffers absent creates no handle,
\* stops and releases every handle of the prior session, and changes nothing
\* else of the session state except the anchor, which it sets to
\* deviceNow - offset like every other call.
C8_TeardownAndAnchor ==
    [][(gen' = gen + 1 /\ call'.music = NULL /\ call'.voice = NULL) =>
          /\ musicSource' = NULL /\ voiceSource' = NULL
          /\ graph' = {}
          /\ call'.thrown = "none"
          /\ startTime' = ctxCurrentTime - call'.offset
          /\ pausedAt' = pausedAt
          /\ UNCHANGED ctxVars]_vars

\* A call without buffers that tore down two handles and moved the anchor.
C8_Witness ==
    /\ Scheduled /\ call.music = NULL /\ call.voice = NULL
    /\ call.prior = 2 /\ graph = {}
    /\ call.offset > 0 /\ startTime = call.now - call.offset

\* The mix's duration as the claims state it.
TotalDuration(music, voice, voiceStart) ==
    Max(IF music = NULL THEN 0 ELSE duration(music),
        IF voice = NULL THEN 0 ELSE voiceStart + duration(voice))

Rendered == call.op = "renderToBlob"

\* C9: the renderer called with both sources absent fails with "Nothing to
\* render" and produces no output; the UI with both buffers absent never
\* calls the renderer and never starts a download.
C9_EmptyMix ==
    /\ (Rendered /\ call.music = NULL /\ call.voice = NULL) =>
          /\ call.result.thrown = "Nothing to render"
          /\ DOMAIN call.result = {"thrown"}
    /\ (musicBuffer = NULL /\ voiceBuffer = NULL) =>
          /\ downloads = {}
          /\ pendingRender = NULL
          /\ ~isGenerating
          /\ error = NULL

\* The renderer has been called with both sources absent.
C9_Witness ==
    /\ Rendered /\ call.music = NULL /\ call.voice = NULL
    /\ call.result.thrown # "none"

Encoded == call.op = "bufferToWave"

\* Little-endian reads of the encoder's output.
readUint16(view, at) == view[at] + 256 * view[at + 1]
readUint32(view, at) ==
    view[at] + 256 * view[at + 1] + 65536 * view[at + 2] + 16777216 * view[at + 3]
readInt16(view, at) ==
    LET u == readUint16(view, at) IN IF u >= 32768 THEN u - 65536 ELSE u
bytesAt(view, at) == <<view[at], view[at + 1], view[at + 2], view[at + 3]>>

\* C12: for every channel count, sample rate and frame count the encoder's
\* output is 44 + frameCount * channels * 2 bytes long, and its first 44
\* bytes are the canonical header: "RIFF", total length - 8, "WAVE", "fmt ",
\* 16, 1, channels, sampleRate, sampleRate * channels * 2, channels * 2, 16,
\* "data", frameCount * channels * 2, every number little-endian.
C12_WavHeader ==
    Encoded =>
      LET v == call.blob
          channels == call.abuffer.numberOfChannels
          frameCount == call.len
          sampleRate == call.abuffer.sampleRate
          total == 44 + frameCount * channels * 2
      IN  /\ DOMAIN v = 0..(total - 1)
          /\ bytesAt(v, 0) = <<82, 73, 70, 70>>
          /\ readUint32(v, 4) = total - 8
          /\ bytesAt(v, 8) = <<87, 65, 86, 69>>
          /\ bytesAt(v, 12) = <<102, 109, 116, 32>>
          /\ readUint32(v, 16) = 16
          /\ readUint16(v, 20) = 1
          /\ readUint16(v, 22) = channels
          /\ readUint32(v, 24) = sampleRate
          /\ readUint32(v, 28) = sampleRate * channels * 2
          /\ readUint16(v, 32) = channels * 2
          /\ readUint16(v, 34) = 16
          /\ bytesAt(v, 36) = <<100, 97, 116, 97>>
          /\ readUint32(v, 40) = frameCount * channels * 2

\* A stereo buffer of more frames than the header has bytes was encoded.
C12_Witness ==
    /\ Encoded
    /\ call.abuffer.numberOfChannels = 2
    /\ call.len > 44
    /\ call.abuffer.sampleRate = RenderSampleRate

\* C13: the data section holds every input frame in order, interleaved by
\* channel: for every frame k in 0..frameCount-1 and channel c, the 16-bit
\* little-endian sample at byte offset 44 + (k * channels + c) * 2 is the
\* quantization of input sample (frame k, channel c); no frame is skipped,
\* shifted or left as zero padding.
C13_DataSection ==
    Encoded =>
      LET channels == call.abuffer.numberOfChannels
      IN  \A k \in 0..(call.len - 1), c \in 0..(channels - 1) :
            readInt16(call.blob, 44 + (k * channels + c) * 2)
              = quantize(call.abuffer.channelData[c][k])

Quantized == call.op = "quantize"

\* C14: every encoded sample is first clamped to [-1, 1]; then every negative
\* value, those between -0.5 and 0 included, is scaled by 32768 and every
\* non-negative value by 32767, and the result is truncated toward zero.
C14_AsymmetricScaling ==
    Quantized =>
      LET x == call.sample
          c == IF x < -SampleUnit THEN -SampleUnit
               ELSE IF x > SampleUnit THEN SampleUnit ELSE x
          scaled == IF c < 0 THEN c * 32768 ELSE c * 32767
          whole == IF scaled < 0 THEN -((-scaled) \div SampleUnit)
                   ELSE scaled \div SampleUnit
      IN  call.value = whole

\* C15: a sample of exactly -1.0 encodes to -32768, a sample of exactly 1.0
\* to 32767, and every sample, those outside [-1, 1] included, encodes to an
\* integer of the signed 16-bit range -32768..32767.
C15_Extremes ==
    Quantized =>
      /\ call.value \in -32768..32767
      /\ call.sample = -SampleUnit => call.value = -32768
      /\ call.sample = SampleUnit => call.value = 32767

\* A sample above 1.0 was quantized.
C15_Witness == Quantized /\ call.sample > SampleUnit

(***************************************************************************)
(* The placement of the sources in the rendered mix.                       *)
(***************************************************************************)
\* The frames of a source whose first sample is placed at origin: the times
\* at which they begin.
frameTimes(buffer, origin) ==
    IF buffer = NULL THEN {}
    ELSE {origin + k * (TimeBase \div buffer.sampleRate) : k \in 0..(buffer.length - 1)}

\* C11: in the rendered mix the background's first sample sits at timeline
\* position 0 and the voice's first sample at voiceStartTime, and every
\* sample of both sources appears in the output, nothing skipped or cut,
\* whatever the engine's live session is: the output spans the times of all
\* frames of both sources, and its frame at time t holds the background
\* where t is in [0, backgroundDuration) plus the voice where t is in
\* [voiceStartTime, voiceStartTime + voiceDuration).
C11_RenderPlacement ==
    Rendered /\ call.result.thrown = "none" =>
      LET blob == call.result.blob
          len == call.result.rendered.length
          expected(t) ==
            (IF call.music # NULL /\ t < duration(call.music)
             THEN MusicLevel ELSE 0)
            + (IF call.voice # NULL /\ call.voiceStart <= t
                  /\ t < call.voiceStart + duration(call.voice)
               THEN VoiceLevel ELSE 0)
      IN  /\ \A t \in frameTimes(call.music, 0) \cup frameTimes(call.voice, call.voiceStart) :
               t < len * TimeStep
          /\ \A j \in 0..(len - 1), c \in 0..1 :
               readInt16(blob, 44 + (j * 2 + c) * 2) = quantize(expected(j * TimeStep))

(***************************************************************************)
(* The raw PCM decoder.                                                    *)
(***************************************************************************)
Decoded == call.op = "decodeRawPCM"

\* The 16-bit samples of the input of the last decodeRawPCM call.
samplesIn == byteLength(call.arrayBuffer) \div 2

\* The decoder returned a buffer of frameCount frames whose sample (channel
\* c, frame i) is the little-endian input integer at interleaved index
\* i * channels + c, divided by 32768.
PlanarOf(frameCount) ==
    /\ call.result.thrown = "none"
    /\ call.result.buffer.numberOfChannels = call.numChannels
    /\ call.result.buffer.length = frameCount
    /\ \A c \in 0..(call.numChannels - 1), i \in 0..(frameCount - 1) :
         LET out == call.result.buffer.channelData[c][i]
         IN  /\ out * 32768
                  = readInt16(call.arrayBuffer, 2 * (i * call.numChannels + c)) * SampleUnit
             /\ -SampleUnit <= out /\ out < SampleUnit

\* C16: decodeRawPCM converts interleaved to planar.  On an input of a
\* whole number of frames, at least one, output sample (channel c, frame i)
\* is the signed 16-bit little-endian input integer at interleaved index
\* i * channels + c divided by 32768, the output has (number of 16-bit
\* samples) / channels frames, and every output value lies in [-1, 1).
C16_InterleavedToPlanar ==
    Decoded /\ byteLength(call.arrayBuffer) % (2 * call.numChannels) = 0
            /\ samplesIn > 0
      => PlanarOf(samplesIn \div call.numChannels)

\* Two stereo frames, or more, were decoded.
C16_Witness ==
    /\ Decoded
    /\ call.numChannels = 2
    /\ call.result.thrown = "none"
    /\ call.result.buffer.length >= 2
    /\ byteLength(call.arrayBuffer) % 4 = 0

\* C17: decodeRawPCM never fails on a byte sequence whose length is not a
\* multiple of 2 * channels (an odd number of bytes, or a sample count the
\* channel count does not divide): it truncates to the last complete frame
\* and returns a buffer of exactly the complete frames.
C17_TruncatesPartialFrame ==
    Decoded /\ byteLength(call.arrayBuffer) % (2 * call.numChannels) # 0
      => PlanarOf(byteLength(call.arrayBuffer) \div (2 * call.numChannels))

(***************************************************************************)
(* The UI's handlers.                                                      *)
(***************************************************************************)
\* C20: a failed operation is never partially applied.  A step in which the
\* file upload fails (container decode), or the voice generation fails
\* (speech generation or raw PCM decode), leaves the background buffer, the
\* voice buffer, voiceStartTime and duration unchanged and sets an error
\* message; a step in which the render fails changes nothing but the error
\* message and the busy flag.
C20_FailedOpsNotApplied ==
    [][/\ (call'.op \in {"handleFileUpload", "handleGenerateVoice"}
             /\ call'.returned = "failed")
          => /\ UNCHANGED <<musicBuffer, voiceBuffer, voiceStartTime, appDuration>>
             /\ error' # NULL
       /\ (pendingRender # NULL /\ pendingRender' = NULL
             /\ call'.result.thrown # "none")
          => /\ UNCHANGED <<musicBuffer, voiceBuffer, voiceStartTime, appDuration,
                            backgroundFile, isPlaying, currentTime, downloads,
                            pendingUpload, pendingVoice, engineVars, ctxVars>>
             /\ error' # NULL /\ ~isGenerating']_vars

\* A voice generation has failed while a background and a voice were loaded.
C20_Witness ==
    /\ call.op = "handleGenerateVoice" /\ call.returned = "failed"
    /\ musicBuffer # NULL /\ voiceBuffer # NULL
    /\ error # NULL

\* C18: in every reachable state of the UI, after any sequence of file
\* uploads, voice generations, seeks, voice-start changes, play/pause
\* toggles and draw-loop ticks, 0 <= currentTime <= overall duration =
\* max(backgroundDuration, voiceStartTime + voiceDuration).
C18_PlayheadInRange ==
    /\ 0 <= currentTime
    /\ currentTime <= Max(durationOr0(musicBuffer),
                          voiceStartTime + durationOr0(voiceBuffer))

\* C19: after every completed UI operation that changes a buffer or
\* voiceStartTime (successful file upload, successful voice generation,
\* voice-start slider change) the UI's duration equals
\* max(backgroundDuration, voiceStartTime + voiceDuration) of the buffers
\* and the voiceStartTime in effect after the operation.
C19_DurationRecomputed ==
    \/ call.op = "handleFileUpload" /\ call.returned = "loaded"
    \/ call.op = "handleGenerateVoice" /\ call.returned = "generated"
    \/ call.op = "handleVoicePositionChange"
    => appDuration = Max(durationOr0(musicBuffer),
                         voiceStartTime + durationOr0(voiceBuffer))

(***************************************************************************)
(* Playback driven by the UI.                                              *)
(***************************************************************************)
\* The engine refers to no node and every node the graph still holds has
\* been stopped.
NoActiveHandle ==
    /\ musicSource = NULL
    /\ voiceSource = NULL
    /\ \A n \in graph : n.stopped

\* A run of draw while playing at which the playhead device clock - anchor
\* has reached the UI's duration: it stops the engine, clears isPlaying and
\* resets currentTime; an earlier run keeps playing and records the playhead.
C21_DrawStep ==
    isPlaying /\ call' # call /\ call'.op = "draw" =>
      IF ctxCurrentTime - startTime >= appDuration
      THEN ~isPlaying' /\ currentTime' = 0 /\ NoActiveHandle'
      ELSE isPlaying' /\ currentTime' = ctxCurrentTime - startTime
             /\ UNCHANGED engineVars

\* C21: while the UI is playing, the first draw-loop tick at which
\* getCurrentTime() >= duration stops the engine (no active handle remains),
\* sets isPlaying to false and resets currentTime to 0; with a draw loop that
\* keeps running and a device clock that keeps advancing, every playback
\* that is started comes to a stopped state, by this tick unless the user
\* stops it before.
C21_EndOfTimeline ==
    /\ [][C21_DrawStep]_vars
    /\ (isPlaying ~> (~isPlaying /\ NoActiveHandle))

\* Playback has run to the end of the timeline: the last step was the draw
\* tick that found the playhead at the duration or past it.
C21_Witness ==
    /\ call.op = "draw" /\ call.t >= appDuration /\ appDuration > 0
    /\ ~isPlaying /\ currentTime = 0 /\ NoActiveHandle

\* A handle started at device time n.when reading its buffer from n.offset
\* puts the buffer's beginning at timeline position origin, starts no
\* earlier than the call and reads from inside the buffer.
Aligned(n, origin) ==
    /\ (n.when - startTime) - n.offset = origin
    /\ n.when >= call.now
    /\ 0 <= n.offset /\ n.offset < duration(n.buffer)

\* C22: for each handle that schedulePlayback starts with device start time
\* w and read offset r, (w - anchor) - r is the source's timeline origin (0
\* for the background, voiceStartTime for the voice), with w >= deviceNow
\* and 0 <= r < the source's duration.
C22_TimelineAlignment ==
    Scheduled =>
        /\ musicSource # NULL => Aligned(MusicNode, 0)
        /\ voiceSource # NULL => Aligned(VoiceNode, call.voiceStart)

\* Both handles started by one call with a positive offset at a device time
\* after 0, the background mid-buffer and the voice ahead of the playhead.
C22_Witness ==
    /\ Scheduled /\ musicSource # NULL /\ voiceSource # NULL
    /\ call.now > 0 /\ call.offset > 0
    /\ MusicNode.offset > 0
    /\ VoiceNode.when > call.now

\* A step that calls schedulePlayback (gen counts the calls) leaves isPlaying
\* true, and a step that takes isPlaying from true to false leaves the engine
\* stopped.
C23_Step ==
    /\ gen' # gen => isPlaying'
    /\ (isPlaying /\ ~isPlaying') => NoActiveHandle'

\* C23: in every reachable state in which the UI's isPlaying flag is false
\* the engine holds no active handle; schedulePlayback is only called in a
\* step that leaves isPlaying true, and every step that sets isPlaying to
\* false (pause, voice-start change while playing, end of timeline) also
\* calls stop().
C23_UiEngineConsistent ==
    /\ [](~isPlaying => NoActiveHandle)
    /\ [][C23_Step]_vars

\* The voice start was moved during a playback of a background that had
\* not come to its end: the UI is paused and the engine stopped.
C23_Witness ==
    /\ call.op = "handleVoicePositionChange" /\ call.engine = "stop"
    /\ ~isPlaying /\ NoActiveHandle
    /\ musicBuffer # NULL /\ startTime + appDuration > ctxCurrentTime

\* A step from a paused UI to a playing one, taken while the playhead is
\* still the one draw recorded last: schedulePlayback is called with that
\* position as its offset and getCurrentTime() right after is that position.
C24_ResumeStep ==
    (~isPlaying /\ isPlaying' /\ recorded # NULL) =>
        /\ call'.op = "togglePlayback" /\ call'.engine = "schedulePlayback"
        /\ call'.offset = recorded.t
        /\ ctxCurrentTime' - startTime' = recorded.t

\* C24: if the user pauses during playback and later presses play with no
\* seek in between, schedulePlayback is called with offset equal to the last
\* playhead position the draw loop recorded before the pause, so
\* getCurrentTime() right after the resume equals that position, however
\* long the device clock advanced while paused.
C24_PauseResume == [][C24_ResumeStep]_vars

\* A playback resumed from a recorded position past 0, at a device time
\* later than that of the draw that recorded it.
C24_Witness ==
    /\ call.op = "togglePlayback" /\ call.engine = "schedulePlayback"
    /\ isPlaying /\ effectPending /\ gen > 1
    /\ recorded # NULL /\ recorded.t > 0
    /\ call.offset = recorded.t
    /\ call.now > recorded.at
    /\ musicSource # NULL

====
